---- MODULE Spec2Model ----
(***************************************************************************)
(* Grapheme-cluster aware strings of gee_cee.                              *)
(*                                                                         *)
(* Two GCString classes are modelled:                                      *)
(*   "gcu"      - src/src/lib/gcu.js      (#rawString, #gcArray,           *)
(*                                         #gcIndexMap)                    *)
(*   "gcstring" - src/unnamed/part_000    (#value, #graphemes)             *)
(*                                                                         *)
(* A JavaScript string is a sequence of code units; a code unit is a TLA+  *)
(* string naming it ("a", " ", "U+0301", "CR", "LF").  A cluster is a      *)
(* non-empty sequence of code units, a cluster array a sequence of         *)
(* clusters.  An optional argument is <<>> when omitted (undefined) and    *)
(* <<n>> when the caller passes the integer n.                             *)
(***************************************************************************)
EXTENDS Integers, Sequences, FiniteSets, TLC

VARIABLES this, call, ret

vars == <<this, call, ret>>

(***************************************************************************)
(* Bounds of the model.                                                    *)
(***************************************************************************)
MaxLen == 3
MaxTerm == 2

Letters == {"a", " ", "U+0301"}

\* the code units of the strings a caller constructs instances from
Alphabet == Letters \cup {"CR", "LF"}

RECURSIVE StringsUpTo(_, _)
StringsUpTo(alphabet, n) ==
    IF n = 0 THEN {<<>>}
    ELSE LET shorter == StringsUpTo(alphabet, n - 1)
         IN  shorter \cup {Append(s, c) : s \in shorter, c \in alphabet}

Receivers == StringsUpTo(Letters, MaxLen)
Terms == StringsUpTo(Letters, MaxTerm)
Indices == (0 - (MaxLen + 1)) .. (MaxLen + 1)
OptIndices == {<<>>} \cup {<<i>> : i \in Indices}
Replacements == StringsUpTo(Letters, MaxTerm - 1)
Patterns ==
    {[kind |-> "string", source |-> t, global |-> FALSE] : t \in Terms}
        \cup {[kind |-> "RegExp", source |-> t, global |-> g] :
                  t \in Terms, g \in BOOLEAN}

(***************************************************************************)
(* JavaScript values used by the classes.                                  *)
(***************************************************************************)
undefined == <<>>
\* the value of an out-of-range array element: equal to no cluster
undefinedElement == <<"undefined">>

Max(x, y) == IF x >= y THEN x ELSE y
Min(x, y) == IF x <= y THEN x ELSE y

\* arr[i] of a JavaScript array with a 0-based index
Elem(arr, i) == IF i >= 0 /\ i < Len(arr) THEN arr[i + 1] ELSE undefinedElement

\* Array.prototype.join('') of an array of strings; undefined joins as ''
RECURSIVE Join(_)
Join(arr) ==
    IF arr = <<>> THEN <<>>
    ELSE (IF Head(arr) = undefinedElement THEN <<>> ELSE Head(arr)) \o Join(Tail(arr))

SetMax(S) == CHOOSE x \in S : \A y \in S : y <= x
SetMin(S) == CHOOSE x \in S : \A y \in S : x <= y

\* String.prototype.repeat(count) for a finite count >= 0
RECURSIVE StringRepeat(_, _)
StringRepeat(str, count) ==
    IF count <= 0 THEN <<>> ELSE str \o StringRepeat(str, count - 1)

\* String.prototype.indexOf(sub, from) on code units, 0 <= from
StringIndexOf(str, sub, from) ==
    LET found == {i \in from .. Len(str) - Len(sub) :
                     SubSeq(str, i + 1, i + Len(sub)) = sub}
    IN  IF found = {} THEN -1 ELSE SetMin(found)

\* String.prototype.replace(pattern, replacement): the first match
StringReplace(str, sub, replacement) ==
    LET i == StringIndexOf(str, sub, 0)
    IN  IF i = -1 THEN str
        ELSE SubSeq(str, 1, i) \o replacement
                 \o SubSeq(str, i + Len(sub) + 1, Len(str))

\* String.prototype.replaceAll(pattern, replacement): every match, left to
\* right, an empty pattern matching before every code unit and at the end
RECURSIVE ReplaceAllFrom(_, _, _, _, _)
ReplaceAllFrom(str, sub, replacement, searchFrom, endOfLastMatch) ==
    LET i == StringIndexOf(str, sub, searchFrom)
    IN  IF i = -1 THEN SubSeq(str, endOfLastMatch + 1, Len(str))
        ELSE SubSeq(str, endOfLastMatch + 1, i) \o replacement
                 \o ReplaceAllFrom(str, sub, replacement,
                                   i + Max(1, Len(sub)), i + Len(sub))

StringReplaceAll(str, sub, replacement) ==
    ReplaceAllFrom(str, sub, replacement, 0, 0)

\* String.prototype.split(separator, limit) with a non-empty string separator
RECURSIVE SplitFrom(_, _, _)
SplitFrom(str, separator, from) ==
    LET i == StringIndexOf(str, separator, from)
    IN  IF i = -1 THEN <<SubSeq(str, from + 1, Len(str))>>
        ELSE <<SubSeq(str, from + 1, i)>> \o SplitFrom(str, separator, i + Len(separator))

\* a split that drops a trailing empty part
StringSplit_dropsTrailingEmpty(str, separator, limit) ==
    LET parts == SplitFrom(str, separator, 0)
    IN  IF Len(parts) > 1 /\ parts[Len(parts)] = <<>>
        THEN SubSeq(parts, 1, Len(parts) - 1)
        ELSE parts

StringSplit(str, separator, limit) ==
    LET parts == IF separator = <<>> THEN [i \in 1 .. Len(str) |-> <<str[i]>>]
                 ELSE SplitFrom(str, separator, 0)
    IN  IF limit = undefined \/ limit[1] < 0 THEN parts
        ELSE SubSeq(parts, 1, Min(limit[1], Len(parts)))

\* white space code units (the \s of a pattern, the units String.trim strips)
IsWhiteSpaceUnit(c) == c \in {" ", "CR", "LF"}

\* String.prototype.toUpperCase / toLowerCase (and the locale variants with
\* the host's default locale) on the code units of the model
ToUpperCaseUnit(c) ==
    CASE c = "a" -> "A"
      [] c = "U+00E1" -> "U+00C1"
      [] OTHER -> c

ToLowerCaseUnit(c) ==
    CASE c = "A" -> "a"
      [] c = "U+00C1" -> "U+00E1"
      [] OTHER -> c

StringToUpperCase(str) == [i \in 1 .. Len(str) |-> ToUpperCaseUnit(str[i])]
StringToLowerCase(str) == [i \in 1 .. Len(str) |-> ToLowerCaseUnit(str[i])]

\* String.prototype.normalize: NFC and NFKC compose a letter and the acute
\* accent that follows it, NFD and NFKD decompose the precomposed letter
RECURSIVE StringNormalizeC(_)
StringNormalizeC(str) ==
    IF Len(str) < 2 THEN str
    ELSE IF str[1] = "a" /\ str[2] = "U+0301"
    THEN <<"U+00E1">> \o StringNormalizeC(SubSeq(str, 3, Len(str)))
    ELSE IF str[1] = "A" /\ str[2] = "U+0301"
    THEN <<"U+00C1">> \o StringNormalizeC(SubSeq(str, 3, Len(str)))
    ELSE <<str[1]>> \o StringNormalizeC(Tail(str))

RECURSIVE StringNormalizeD(_)
StringNormalizeD(str) ==
    IF str = <<>> THEN <<>>
    ELSE (CASE str[1] = "U+00E1" -> <<"a", "U+0301">>
            [] str[1] = "U+00C1" -> <<"A", "U+0301">>
            [] OTHER -> <<str[1]>>) \o StringNormalizeD(Tail(str))

NormalizationForms == {"NFC", "NFD", "NFKC", "NFKD"}

\* String.prototype.trimStart / trimEnd / trim
RECURSIVE StringTrimStart(_)
StringTrimStart(str) ==
    IF str # <<>> /\ IsWhiteSpaceUnit(Head(str)) THEN StringTrimStart(Tail(str))
    ELSE str

RECURSIVE StringTrimEnd(_)
StringTrimEnd(str) ==
    IF str # <<>> /\ IsWhiteSpaceUnit(str[Len(str)])
    THEN StringTrimEnd(SubSeq(str, 1, Len(str) - 1))
    ELSE str

StringTrim(str) == StringTrimEnd(StringTrimStart(str))

\* Array.prototype.slice(start, end): relative indices, clamped
RelativeIndex(i, n) == IF i < 0 THEN Max(n + i, 0) ELSE Min(i, n)

ArraySlice(arr, start, end) ==
    LET n == Len(arr)
        k == IF start = undefined THEN 0 ELSE RelativeIndex(start[1], n)
        final == IF end = undefined THEN n ELSE RelativeIndex(end[1], n)
    IN  IF k >= final THEN <<>> ELSE SubSeq(arr, k + 1, final)

(***************************************************************************)
(* The segmenter: Intl.Segmenter with granularity 'grapheme'.  The rules   *)
(* are those of the extended grapheme cluster boundaries that the code     *)
(* units of the model can exercise: CR LF is one cluster, there is a       *)
(* boundary after and before CR and LF, none before a combining mark.      *)
(***************************************************************************)
GraphemeBreakClass(c) ==
    CASE c = "U+0301" -> "Extend"
      [] c = "CR" -> "CR"
      [] c = "LF" -> "LF"
      [] OTHER -> "Other"

NoBoundary(prev, next) ==
    LET p == GraphemeBreakClass(prev)
        q == GraphemeBreakClass(next)
    IN  IF p = "CR" /\ q = "LF" THEN TRUE
        ELSE IF p \in {"CR", "LF"} THEN FALSE
        ELSE IF q \in {"CR", "LF"} THEN FALSE
        ELSE q = "Extend"

RECURSIVE SegmentLoop(_, _, _, _)
SegmentLoop(str, i, cur, acc) ==
    IF i > Len(str) THEN Append(acc, cur)
    ELSE IF NoBoundary(str[i - 1], str[i])
         THEN SegmentLoop(str, i + 1, Append(cur, str[i]), acc)
         ELSE SegmentLoop(str, i + 1, <<str[i]>>, Append(acc, cur))

\* a segmenter that keeps only the first code unit of every cluster
segmentStringIntoGCs_firstUnits(str) ==
    LET gcs == IF str = <<>> THEN <<>> ELSE SegmentLoop(str, 2, <<str[1]>>, <<>>)
    IN  [i \in 1 .. Len(gcs) |-> <<gcs[i][1]>>]

segmentStringIntoGCs(str) ==
    IF str = <<>> THEN <<>> ELSE SegmentLoop(str, 2, <<str[1]>>, <<>>)

(***************************************************************************)
(* Construction.  An input is [kind, v]: a string, null, undefined or a    *)
(* GCString instance.  An instance is [cls, rawString, gcArray,            *)
(* gcIndexMap, frozen, id]; gcIndexMap is the #gcIndexMap of gcu.js,       *)
(* undefined until the map is built (part_000 has no such field: it stays  *)
(* undefined); frozen tells whether the cluster array went through         *)
(* Object.freeze; id is the identity of the object: "fresh" for an object  *)
(* that `new` creates during a call, "receiver" for the object the caller  *)
(* already holds and calls methods on.                                     *)
(***************************************************************************)
StringInput(s) == [kind |-> "string", v |-> s]
InstanceInput(g) == [kind |-> "GCString", v |-> g]
NullInput == [kind |-> "null", v |-> <<>>]
UndefinedInput == [kind |-> "undefined", v |-> <<>>]

\* String(x) of part_000's constructor
ToStringValue(input) ==
    CASE input.kind = "GCString" -> input.v.rawString
      [] input.kind = "null" -> <<"n", "u", "l", "l">>
      [] input.kind = "undefined" -> <<"u", "n", "d", "e", "f", "i", "n", "e", "d">>
      [] OTHER -> input.v

NewGcu(input) ==
    LET rawString ==
            IF input.kind = "GCString" THEN input.v.rawString
            ELSE IF input.kind \in {"null", "undefined"} THEN <<>>
            ELSE input.v
    IN  [cls |-> "gcu", rawString |-> rawString,
         gcArray |-> segmentStringIntoGCs(rawString), gcIndexMap |-> undefined,
         frozen |-> FALSE, id |-> "fresh"]

\* a constructor that does not freeze the cluster array
NewGcstring_notFrozen(input) ==
    [cls |-> "gcstring", rawString |-> ToStringValue(input),
     gcArray |-> segmentStringIntoGCs(ToStringValue(input)), gcIndexMap |-> undefined,
     frozen |-> FALSE, id |-> "fresh"]

NewGcstring(input) ==
    LET value == ToStringValue(input)
    IN  [cls |-> "gcstring", rawString |-> value,
         gcArray |-> segmentStringIntoGCs(value), gcIndexMap |-> undefined,
         frozen |-> TRUE, id |-> "fresh"]

New(cls, input) == IF cls = "gcu" THEN NewGcu(input) ELSE NewGcstring(input)

Classes == {"gcu", "gcstring"}

(***************************************************************************)
(* Range extraction.                                                       *)
(***************************************************************************)
\* gcu.js slice
slice_gcu(g, start, end) ==
    LET slicedGCs == ArraySlice(g.gcArray, start, end)
        newString == Join(slicedGCs)
    IN  NewGcu(StringInput(newString))

\* a slice that ignores its end argument
slice_ignoresEnd(g, start, end) ==
    NewGcstring(StringInput(Join(ArraySlice(g.gcArray, start, undefined))))

\* part_000 slice
slice_gcstring(g, start, end) ==
    NewGcstring(StringInput(Join(ArraySlice(g.gcArray, start, end))))

slice(g, start, end) ==
    IF g.cls = "gcu" THEN slice_gcu(g, start, end) ELSE slice_gcstring(g, start, end)

\* a substring that does not swap its arguments
substring_noSwap(g, indexA, indexB) ==
    LET start == Max(0, indexA)
        end == IF indexB = undefined THEN Len(g.gcArray) ELSE Max(0, indexB[1])
    IN  slice_gcu(g, <<start>>, <<end>>)

\* gcu.js substring
substring_gcu(g, indexA, indexB) ==
    LET start0 == Max(0, indexA)
        end0 == IF indexB = undefined THEN Len(g.gcArray) ELSE Max(0, indexB[1])
        start == IF start0 > end0 THEN end0 ELSE start0
        end == IF start0 > end0 THEN start0 ELSE end0
    IN  slice_gcu(g, <<start>>, <<end>>)

\* a substring that passes negative arguments on, so that they count from the end
substring_noClamp(g, start0, end00) ==
    LET end0 == IF end00 = undefined THEN Len(g.gcArray) ELSE end00[1]
        start == IF start0 > end0 THEN end0 ELSE start0
        end == IF start0 > end0 THEN start0 ELSE end0
    IN  NewGcstring(StringInput(Join(ArraySlice(g.gcArray, <<start>>, <<end>>))))

\* part_000 substring
substring_gcstring(g, start00, end00) ==
    LET start0 == Max(0, start00)
        end0 == IF end00 = undefined THEN Len(g.gcArray) ELSE Max(0, end00[1])
        start == IF start0 > end0 THEN end0 ELSE start0
        end == IF start0 > end0 THEN start0 ELSE end0
    IN  NewGcstring(StringInput(Join(ArraySlice(g.gcArray, <<start>>, <<end>>))))

substring(g, indexA, indexB) ==
    IF g.cls = "gcu" THEN substring_gcu(g, indexA, indexB)
    ELSE substring_gcstring(g, indexA, indexB)

\* part_000 substr
substr(g, start0, length) ==
    LET start == IF start0 < 0 THEN Max(Len(g.gcArray) + start0, 0) ELSE start0
        end == IF length = undefined THEN undefined ELSE <<start + length[1]>>
    IN  NewGcstring(StringInput(Join(ArraySlice(g.gcArray, <<start>>, end))))

(***************************************************************************)
(* Search.                                                                 *)
(***************************************************************************)
\* the inner loop over j: do all clusters of search equal g's clusters at i..
RECURSIVE MatchAt(_, _, _, _)
MatchAt(gcArray, search, i, j) ==
    IF j >= Len(search) THEN TRUE
    ELSE IF Elem(gcArray, i + j) # Elem(search, j) THEN FALSE
    ELSE MatchAt(gcArray, search, i, j + 1)

\* part_000 indexOf: for (i = position; i <= length - search.length; i++)
RECURSIVE IndexOfLoop(_, _, _)
IndexOfLoop(gcArray, search, i) ==
    IF i > Len(gcArray) - Len(search) THEN -1
    ELSE IF MatchAt(gcArray, search, i, 0) THEN i
    ELSE IndexOfLoop(gcArray, search, i + 1)

\* searchString instanceof GCString ? its clusters : the segmented String(searchString)
SearchClusters(searchString) ==
    IF searchString.kind = "GCString" THEN searchString.v.gcArray
    ELSE segmentStringIntoGCs(ToStringValue(searchString))

indexOf(g, searchString, position) ==
    LET search == SearchClusters(searchString)
        pos == IF position = undefined THEN 0 ELSE position[1]
    IN  IndexOfLoop(g.gcArray, search, pos)

\* a backward scan that stops before index 0: for (i = start; i > 0; i--)
RECURSIVE LastIndexOfLoop_stopsBeforeZero(_, _, _)
LastIndexOfLoop_stopsBeforeZero(gcArray, search, i) ==
    IF i <= 0 THEN -1
    ELSE IF MatchAt(gcArray, search, i, 0) THEN i
    ELSE LastIndexOfLoop_stopsBeforeZero(gcArray, search, i - 1)

\* part_000 lastIndexOf: for (i = start; i >= 0; i--)
RECURSIVE LastIndexOfLoop(_, _, _)
LastIndexOfLoop(gcArray, search, i) ==
    IF i < 0 THEN -1
    ELSE IF MatchAt(gcArray, search, i, 0) THEN i
    ELSE LastIndexOfLoop(gcArray, search, i - 1)

lastIndexOf(g, searchString, position) ==
    LET search == SearchClusters(searchString)
        start == IF position = undefined
                 THEN Len(g.gcArray) - Len(search)
                 ELSE Min(position[1], Len(g.gcArray) - Len(search))
    IN  LastIndexOfLoop(g.gcArray, search, start)

\* part_000 includes
includes(g, searchString, position) ==
    indexOf(g, searchString, position) # -1

\* part_000 startsWith
startsWith_gcstring(g, searchString, position) ==
    LET pos == IF position = undefined THEN 0 ELSE position[1]
    IN  indexOf(g, searchString, <<pos>>) = pos

\* gcu.js startsWith
startsWith_gcu(g, searchString, position) ==
    LET pos == IF position = undefined THEN 0 ELSE position[1]
        searchGCs == segmentStringIntoGCs(searchString.v)
        searchLength == Len(searchGCs)
    IN  IF searchLength + pos > Len(g.gcArray) THEN FALSE
        ELSE MatchAt(g.gcArray, searchGCs, pos, 0)

startsWith(g, searchString, position) ==
    IF g.cls = "gcu" THEN startsWith_gcu(g, searchString, position)
    ELSE startsWith_gcstring(g, searchString, position)

\* part_000 endsWith
endsWith_gcstring(g, searchString, endPosition) ==
    LET end == IF endPosition = undefined THEN Len(g.gcArray) ELSE endPosition[1]
        search == IF searchString.kind = "GCString" THEN searchString.v
                  ELSE NewGcstring(searchString)
    IN  lastIndexOf(g, InstanceInput(search), <<end - Len(search.gcArray)>>)
            = end - Len(search.gcArray)

\* gcu.js endsWith
endsWith_gcu(g, searchString, endPosition) ==
    LET end == IF endPosition = undefined THEN Len(g.gcArray) ELSE endPosition[1]
        searchGCs == segmentStringIntoGCs(searchString.v)
        searchLength == Len(searchGCs)
        startPosition == end - searchLength
    IN  IF startPosition < 0 THEN FALSE
        ELSE MatchAt(g.gcArray, searchGCs, startPosition, 0)

endsWith(g, searchString, endPosition) ==
    IF g.cls = "gcu" THEN endsWith_gcu(g, searchString, endPosition)
    ELSE endsWith_gcstring(g, searchString, endPosition)

(***************************************************************************)
(* Padding.  A method that can throw returns [threw, err, gc].             *)
(***************************************************************************)
Returned(g) == [threw |-> FALSE, err |-> "", gc |-> g]
Threw(err) == [threw |-> TRUE, err |-> err,
               gc |-> [cls |-> "none", rawString |-> <<>>, gcArray |-> <<>>,
                       gcIndexMap |-> <<>>, frozen |-> FALSE, id |-> "none"]]

DefaultPad(padString) == IF padString = undefined THEN <<" ">> ELSE padString[1]

\* gcu.js #generatePadding: push padGCs[i % padGCs.length] for i < paddingCount;
\* with no pad cluster the index is NaN and the element pushed is undefined
RECURSIVE PaddingLoop(_, _, _)
PaddingLoop(padGCs, i, paddingCount) ==
    IF i >= paddingCount THEN <<>>
    ELSE <<IF Len(padGCs) = 0 THEN undefinedElement
           ELSE Elem(padGCs, i % Len(padGCs))>>
             \o PaddingLoop(padGCs, i + 1, paddingCount)

generatePadding(targetCount, currentCount, padString) ==
    LET paddingCount == targetCount - currentCount
    IN  IF paddingCount <= 0 THEN <<>>
        ELSE PaddingLoop(segmentStringIntoGCs(padString), 0, paddingCount)

padStart_gcu(g, targetLength, padString) ==
    LET paddingGCs == generatePadding(targetLength, Len(g.gcArray), DefaultPad(padString))
    IN  Returned(NewGcu(StringInput(Join(paddingGCs \o g.gcArray))))

padEnd_gcu(g, targetLength, padString) ==
    LET paddingGCs == generatePadding(targetLength, Len(g.gcArray), DefaultPad(padString))
    IN  Returned(NewGcu(StringInput(Join(g.gcArray \o paddingGCs))))

\* part_000 padStart / padEnd: the padding string; with no pad cluster
\* fullPads is Infinity and String.repeat throws a RangeError
Padding_gcstring(g, padGC, padNeeded) ==
    LET fullPads == padNeeded \div Len(padGC.gcArray)
        partialPad == padNeeded % Len(padGC.gcArray)
    IN  StringRepeat(padGC.rawString, fullPads)
            \o slice_gcstring(padGC, <<0>>, <<partialPad>>).rawString

padStart_gcstring(g, targetLength, padString) ==
    LET padGC == NewGcstring(StringInput(DefaultPad(padString)))
        padNeeded == targetLength - Len(g.gcArray)
    IN  IF padNeeded <= 0 THEN Returned(NewGcstring(StringInput(g.rawString)))
        ELSE IF Len(padGC.gcArray) = 0 THEN Threw("RangeError")
        ELSE Returned(NewGcstring(StringInput(
                          Padding_gcstring(g, padGC, padNeeded) \o g.rawString)))

padEnd_gcstring(g, targetLength, padString) ==
    LET padGC == NewGcstring(StringInput(DefaultPad(padString)))
        padNeeded == targetLength - Len(g.gcArray)
    IN  IF padNeeded <= 0 THEN Returned(NewGcstring(StringInput(g.rawString)))
        ELSE IF Len(padGC.gcArray) = 0 THEN Threw("RangeError")
        ELSE Returned(NewGcstring(StringInput(
                          g.rawString \o Padding_gcstring(g, padGC, padNeeded))))

padStart(g, targetLength, padString) ==
    IF g.cls = "gcu" THEN padStart_gcu(g, targetLength, padString)
    ELSE padStart_gcstring(g, targetLength, padString)

padEnd(g, targetLength, padString) ==
    IF g.cls = "gcu" THEN padEnd_gcu(g, targetLength, padString)
    ELSE padEnd_gcstring(g, targetLength, padString)

(***************************************************************************)
(* Trimming.                                                               *)
(***************************************************************************)
\* gcu.js isWhitespace: /^\s$/ matches a cluster of exactly one white space unit
isWhitespace(gc) == Len(gc) = 1 /\ IsWhiteSpaceUnit(gc[1])

\* a scan that removes at most one leading white space cluster
TrimStartIndex_atMostOne(gcArray, startIndex) ==
    IF startIndex < Len(gcArray) /\ isWhitespace(Elem(gcArray, startIndex))
    THEN startIndex + 1
    ELSE startIndex

\* while (startIndex < count && isWhitespace(gcArray[startIndex])) startIndex++
RECURSIVE TrimStartIndex(_, _)
TrimStartIndex(gcArray, startIndex) ==
    IF startIndex < Len(gcArray) /\ isWhitespace(Elem(gcArray, startIndex))
    THEN TrimStartIndex(gcArray, startIndex + 1)
    ELSE startIndex

\* while (endIndex > floor && isWhitespace(gcArray[endIndex - 1])) endIndex--
RECURSIVE TrimEndIndex(_, _, _)
TrimEndIndex(gcArray, endIndex, floor) ==
    IF endIndex > floor /\ isWhitespace(Elem(gcArray, endIndex - 1))
    THEN TrimEndIndex(gcArray, endIndex - 1, floor)
    ELSE endIndex

trim_gcu(g) ==
    LET startIndex == TrimStartIndex(g.gcArray, 0)
        endIndex == TrimEndIndex(g.gcArray, Len(g.gcArray), startIndex)
    IN  slice_gcu(g, <<startIndex>>, <<endIndex>>)

trimLeft(g) == slice_gcu(g, <<TrimStartIndex(g.gcArray, 0)>>, <<Len(g.gcArray)>>)

trimRight(g) == slice_gcu(g, <<0>>, <<TrimEndIndex(g.gcArray, Len(g.gcArray), 0)>>)

\* part_000 trim / trimStart / trimEnd: the native methods on the raw string
trim_gcstring(g) == NewGcstring(StringInput(StringTrim(g.rawString)))
trimStart(g) == NewGcstring(StringInput(StringTrimStart(g.rawString)))
trimEnd(g) == NewGcstring(StringInput(StringTrimEnd(g.rawString)))

TrimMethods(cls) ==
    IF cls = "gcu" THEN {"trim", "trimLeft", "trimRight"}
    ELSE {"trim", "trimStart", "trimEnd"}

Trimmed(g, method) ==
    CASE method = "trim" -> IF g.cls = "gcu" THEN trim_gcu(g) ELSE trim_gcstring(g)
      [] method = "trimLeft" -> trimLeft(g)
      [] method = "trimRight" -> trimRight(g)
      [] method = "trimStart" -> trimStart(g)
      [] method = "trimEnd" -> trimEnd(g)

(***************************************************************************)
(* Replacement, concatenation, repetition, splitting.  A pattern is a      *)
(* string or a RegExp whose source is literal text, with or without the    *)
(* global flag.                                                            *)
(***************************************************************************)
\* a replace that accepts a global RegExp and replaces its first match
replace_acceptsGlobal(g, pattern, replacement) ==
    IF StringIndexOf(g.rawString, pattern.source, 0) = -1 THEN Returned(g)
    ELSE Returned(NewGcu(StringInput(
                      StringReplace(g.rawString, pattern.source, replacement))))

\* gcu.js replace
replace(g, pattern, replacement) ==
    IF pattern.kind = "RegExp" /\ pattern.global THEN Threw("Error")
    ELSE IF StringIndexOf(g.rawString, pattern.source, 0) = -1 THEN Returned(g)
    ELSE Returned(NewGcu(StringInput(
                      StringReplace(g.rawString, pattern.source, replacement))))

\* gcu.js replaceAll: the native method rejects a RegExp without the global flag
replaceAll(g, pattern, replacement) ==
    IF pattern.kind = "RegExp" /\ ~pattern.global THEN Threw("TypeError")
    ELSE Returned(NewGcu(StringInput(
                      StringReplaceAll(g.rawString, pattern.source, replacement))))

\* toLowerCase / toUpperCase / toLocaleLowerCase / toLocaleUpperCase of
\* both classes: the native conversion, then a new instance
CaseMethods == {"toLowerCase", "toUpperCase", "toLocaleLowerCase", "toLocaleUpperCase"}

CaseConverted(g, method) ==
    New(g.cls, StringInput(IF method \in {"toLowerCase", "toLocaleLowerCase"}
                           THEN StringToLowerCase(g.rawString)
                           ELSE StringToUpperCase(g.rawString)))

\* gcu.js normalize: form defaults to 'NFC'; the native method rejects an
\* unknown form
normalize(g, form) ==
    LET f == IF form = undefined THEN "NFC" ELSE form[1]
    IN  IF f \notin NormalizationForms THEN Threw("RangeError")
        ELSE Returned(NewGcu(StringInput(IF f \in {"NFC", "NFKC"}
                                         THEN StringNormalizeC(g.rawString)
                                         ELSE StringNormalizeD(g.rawString))))

\* gcu.js concat, with the arguments' raw strings
concat_gcu(g, strings) == NewGcu(StringInput(g.rawString \o Join(strings)))

\* part_000 concat
concat_gcstring(g, strings) == NewGcstring(StringInput(g.rawString \o Join(strings)))

concat(g, strings) ==
    IF g.cls = "gcu" THEN concat_gcu(g, strings) ELSE concat_gcstring(g, strings)

\* part_000 repeat: the native method rejects a negative count
repeat(g, count) ==
    IF count < 0 THEN Threw("RangeError")
    ELSE Returned(NewGcstring(StringInput(StringRepeat(g.rawString, count))))

\* gcu.js split, step 3: the loop over i, carrying result and
\* currentSegmentStart; a match moves i past the separator
RECURSIVE SplitLoop(_, _, _, _, _, _)
SplitLoop(gcArray, separatorGCs, limit, i, currentSegmentStart, result) ==
    LET count == Len(gcArray)
        separatorLength == Len(separatorGCs)
        isMatch == /\ i + separatorLength <= count
                   /\ MatchAt(gcArray, separatorGCs, i, 0)
    IN  IF i >= count
        THEN [result |-> result, currentSegmentStart |-> currentSegmentStart]
        ELSE IF limit # undefined /\ Len(result) >= limit[1] - 1
        THEN [result |-> result, currentSegmentStart |-> currentSegmentStart]
        ELSE IF isMatch
        THEN SplitLoop(gcArray, separatorGCs, limit, i + separatorLength,
                       i + separatorLength,
                       Append(result,
                              Join(ArraySlice(gcArray, <<currentSegmentStart>>, <<i>>))))
        ELSE SplitLoop(gcArray, separatorGCs, limit, i + 1, currentSegmentStart, result)

\* a split that appends the remainder whatever the limit
split_alwaysRemainder(g, separator, limit) ==
    LET after == SplitLoop(g.gcArray, segmentStringIntoGCs(separator), limit, 0, 0, <<>>)
    IN  IF separator = <<>>
        THEN [i \in 1 .. Len(g.gcArray) |-> g.gcArray[i]]
        ELSE Append(after.result,
                    Join(ArraySlice(g.gcArray, <<after.currentSegmentStart>>, undefined)))

\* gcu.js split: an array of strings
split_gcu(g, separator, limit) ==
    LET count == Len(g.gcArray)
        separatorGCs == segmentStringIntoGCs(separator)
        splitLimit == IF limit = undefined THEN count ELSE Min(limit[1], count)
        after == SplitLoop(g.gcArray, separatorGCs, limit, 0, 0, <<>>)
    IN  IF separator = <<>>
        THEN [i \in 1 .. Max(splitLimit, 0) |-> g.gcArray[i]]
        ELSE IF Len(separatorGCs) = 0
        THEN (IF limit = <<0>> THEN <<>> ELSE <<g.rawString>>)
        ELSE IF limit = undefined \/ Len(after.result) < limit[1]
        THEN Append(after.result,
                    Join(ArraySlice(g.gcArray, <<after.currentSegmentStart>>, undefined)))
        ELSE after.result

\* a split that hands the empty separator to the native method, which cuts
\* between code units
split_byCodeUnits(g, separator, limit) ==
    LET parts == StringSplit(g.rawString, separator, limit)
    IN  [i \in 1 .. Len(parts) |-> NewGcstring(StringInput(parts[i]))]

\* part_000 split with a string separator
split_gcstring(g, separator, limit) ==
    IF separator = <<>>
    THEN LET parts == IF limit = undefined THEN g.gcArray
                      ELSE ArraySlice(g.gcArray, <<0>>, limit)
         IN  [i \in 1 .. Len(parts) |-> NewGcstring(StringInput(parts[i]))]
    ELSE LET parts == StringSplit(g.rawString, separator, limit)
         IN  [i \in 1 .. Len(parts) |-> NewGcstring(StringInput(parts[i]))]

(***************************************************************************)
(* Pattern matching of gcu.js.  The pattern engine works on the raw string *)
(* and reports code unit offsets; the index map translates them.           *)
(***************************************************************************)
\* the offsets at which the engine finds a global pattern from lastIndex on:
\* after a match the scan resumes at its end, one unit further if it is empty
RECURSIVE MatchOffsets(_, _, _)
MatchOffsets(str, source, lastIndex) ==
    LET i == StringIndexOf(str, source, lastIndex)
    IN  IF i = -1 THEN <<>>
        ELSE <<i>> \o MatchOffsets(str, source, i + Max(1, Len(source)))

\* String.prototype.match: null, or the first match with its index, or for
\* a global pattern the matched strings without an index
StringMatch(str, regexp) ==
    LET global == regexp.kind = "RegExp" /\ regexp.global
        offsets == MatchOffsets(str, regexp.source, 0)
    IN  IF offsets = <<>>
        THEN [isNull |-> TRUE, hasIndex |-> FALSE, index |-> 0, elements |-> <<>>]
        ELSE IF global
        THEN [isNull |-> FALSE, hasIndex |-> FALSE, index |-> 0,
              elements |-> [i \in 1 .. Len(offsets) |-> regexp.source]]
        ELSE [isNull |-> FALSE, hasIndex |-> TRUE, index |-> offsets[1],
              elements |-> <<regexp.source>>]

\* the loops over gcIndex and i: one entry per code unit of every cluster
RECURSIVE IndexMapLoop(_, _)
IndexMapLoop(gcArray, gcIndex) ==
    IF gcIndex >= Len(gcArray) THEN <<>>
    ELSE [i \in 1 .. Len(gcArray[gcIndex + 1]) |-> gcIndex]
             \o IndexMapLoop(gcArray, gcIndex + 1)

\* a map without the entry for the end of the string
getCodeUnitIndexToGCIndexMap_noEndEntry(g) == IndexMapLoop(g.gcArray, 0)

\* gcu.js #getCodeUnitIndexToGCIndexMap: map[o + 1] is the entry of offset o
getCodeUnitIndexToGCIndexMap(g) ==
    IF g.gcIndexMap # undefined THEN g.gcIndexMap
    ELSE LET filled == IndexMapLoop(g.gcArray, 0)
         IN  [o \in 1 .. Len(g.rawString) + 1 |->
                 IF o = Len(g.rawString) + 1 THEN Len(g.gcArray) ELSE filled[o]]

\* a translation that never stores the map it computed
WithIndexMap_notCached(g) == g

\* a caching that stores the map over the cluster array
WithIndexMap_overwritesClusters(g) ==
    [g EXCEPT !.gcIndexMap = getCodeUnitIndexToGCIndexMap(g), !.gcArray = <<>>]

\* the instance after the map was asked for: #gcIndexMap holds it
WithIndexMap(g) == [g EXCEPT !.gcIndexMap = getCodeUnitIndexToGCIndexMap(g)]

\* a translation that returns the code unit offset itself
mapCodeUnitIndexToGCIndex_identity(g, codeUnitIndex) == codeUnitIndex

\* gcu.js #mapCodeUnitIndexToGCIndex
mapCodeUnitIndexToGCIndex(g, codeUnitIndex) ==
    LET map == getCodeUnitIndexToGCIndexMap(g)
    IN  IF codeUnitIndex < 0 \/ codeUnitIndex > Len(map) - 1 THEN -1
        ELSE map[codeUnitIndex + 1]

\* gcu.js match: the match array, and the receiver afterwards
match(g, regexp) ==
    LET matchArray == StringMatch(g.rawString, regexp)
        global == regexp.kind = "RegExp" /\ regexp.global
    IN  IF matchArray.isNull THEN [matchArray |-> matchArray, self |-> g]
        ELSE IF ~global /\ matchArray.hasIndex
        THEN [matchArray |-> [matchArray EXCEPT
                                 !.index = mapCodeUnitIndexToGCIndex(g, matchArray.index)],
              self |-> WithIndexMap(g)]
        ELSE [matchArray |-> matchArray, self |-> g]

\* gcu.js search: matchArray.index, which a match array without index lacks
search(g, regexp) ==
    LET m == match(g, regexp)
    IN  IF m.matchArray.isNull THEN [type |-> "number", num |-> -1, self |-> m.self]
        ELSE IF m.matchArray.hasIndex
        THEN [type |-> "number", num |-> m.matchArray.index, self |-> m.self]
        ELSE [type |-> "undefined", num |-> 0, self |-> m.self]

\* gcu.js matchAll is a generator function: the call returns a generator
\* suspended at the start of the body; every next() runs the body up to its
\* next yield, to its end, or to the throw of its first statement
matchAll_next(g, regexp, gen, yielded) ==
    LET global == regexp.kind = "RegExp" /\ regexp.global
        offsets == MatchOffsets(g.rawString, regexp.source, 0)
    IN  IF gen = "suspendedStart" /\ ~global
        THEN [gen |-> "completed", threw |-> TRUE, yielded |-> yielded, self |-> g]
        ELSE IF Len(yielded) < Len(offsets)
        THEN [gen |-> "suspendedYield", threw |-> FALSE,
              yielded |-> Append(yielded,
                                 mapCodeUnitIndexToGCIndex(g, offsets[Len(yielded) + 1])),
              self |-> WithIndexMap(g)]
        ELSE [gen |-> "completed", threw |-> FALSE, yielded |-> yielded, self |-> g]

\* gcu.js charAt: gcArray[index], undefined out of range
charAt_gcu(g, index) ==
    IF index >= 0 /\ index < Len(g.gcArray)
    THEN [type |-> "string", str |-> g.gcArray[index + 1]]
    ELSE [type |-> "undefined", str |-> <<>>]

\* part_000 charAt: graphemes[index] || ''
charAt_gcstring(g, index) ==
    IF index >= 0 /\ index < Len(g.gcArray) /\ g.gcArray[index + 1] # <<>>
    THEN [type |-> "string", str |-> g.gcArray[index + 1]]
    ELSE [type |-> "string", str |-> <<>>]

\* an at that returns the empty string out of range, as charAt does
at_emptyOutOfRange(g, index) ==
    LET i == IF index < 0 THEN Len(g.gcArray) + index ELSE index
    IN  IF i >= 0 /\ i < Len(g.gcArray)
        THEN [type |-> "string", str |-> g.gcArray[i + 1]]
        ELSE [type |-> "string", str |-> <<>>]

\* part_000 at: graphemes[index < 0 ? length + index : index]
at(g, index) ==
    LET i == IF index < 0 THEN Len(g.gcArray) + index ELSE index
    IN  IF i >= 0 /\ i < Len(g.gcArray)
        THEN [type |-> "string", str |-> g.gcArray[i + 1]]
        ELSE [type |-> "undefined", str |-> <<>>]

charAt(g, index) == IF g.cls = "gcu" THEN charAt_gcu(g, index) ELSE charAt_gcstring(g, index)

\* what a caller (module code, hence strict) can try on the array that the
\* graphemes accessor of part_000 hands out: the array is the instance's
\* own, so an attempt that succeeds alters the instance
MutationAttempts == {"graphemes.push", "graphemes.pop", "graphemes[0]="}

ArrayMutation(g, attempt) ==
    IF g.frozen THEN [threw |-> TRUE, self |-> g]
    ELSE [threw |-> FALSE,
          self |-> [g EXCEPT !.gcArray =
                       CASE attempt = "graphemes.push" -> Append(@, <<"a">>)
                         [] attempt = "graphemes.pop" -> SubSeq(@, 1, Len(@) - 1)
                         [] attempt = "graphemes[0]=" -> <<<<"a">>>> \o SubSeq(@, 2, Len(@))]]

(***************************************************************************)
(* The program: a caller holds the instance `this`, calls one method on it *)
(* and receives `ret`; `call` records the method and its arguments.  The   *)
(* caller then constructs its next instance from what it holds.            *)
(***************************************************************************)
\* the value a call returns: a GCString (gc), a number (num), a boolean
\* (bool), an array of GCStrings (gcs), a string or an array of strings
\* (strs), a match array (num is its index, strs its elements), a generator
\* (gen is its state, nums the indices of the matches it has yielded), or
\* the error thrown (err)
NoInstance ==
    [cls |-> "none", rawString |-> <<>>, gcArray |-> <<>>, gcIndexMap |-> <<>>,
     frozen |-> FALSE, id |-> "none"]
Return(type, gc, num, bool, gcs, err) ==
    [type |-> type, gc |-> gc, num |-> num, bool |-> bool, gcs |-> gcs, err |-> err,
     strs |-> <<>>, nums |-> <<>>, gen |-> "none"]
NoReturn == Return("undefined", NoInstance, 0, FALSE, <<>>, "")
ReturnGC(g) == Return("GCString", g, 0, FALSE, <<>>, "")
ReturnNumber(x) == Return("number", NoInstance, x, FALSE, <<>>, "")
ReturnBoolean(b) == Return("boolean", NoInstance, 0, b, <<>>, "")
ReturnArray(gcs) == Return("Array", NoInstance, 0, FALSE, gcs, "")
ReturnStrings(strs) == [Return("Array", NoInstance, 0, FALSE, <<>>, "") EXCEPT !.strs = strs]
ReturnString(r) ==
    [Return(r.type, NoInstance, 0, FALSE, <<>>, "") EXCEPT
        !.strs = IF r.type = "string" THEN <<r.str>> ELSE <<>>]
ReturnMatch(matchArray) ==
    IF matchArray.isNull THEN Return("null", NoInstance, 0, FALSE, <<>>, "")
    ELSE [Return(IF matchArray.hasIndex THEN "match" ELSE "matches",
                 NoInstance, matchArray.index, FALSE, <<>>, "")
             EXCEPT !.strs = matchArray.elements]
ReturnGenerator(gen, yielded) ==
    [Return("Generator", NoInstance, 0, FALSE, <<>>, "") EXCEPT
        !.gen = gen, !.nums = yielded]
ReturnThrow(err) == Return("throw", NoInstance, 0, FALSE, <<>>, err)
ReturnOrThrow(r) == IF r.threw THEN ReturnThrow(r.err) ELSE ReturnGC(r.gc)

NoPattern == [kind |-> "none", source |-> <<>>, global |-> FALSE]
ArgsWith(op, str, p1, p2, pattern, pad) ==
    [op |-> op, str |-> str, p1 |-> p1, p2 |-> p2, pattern |-> pattern, pad |-> pad]
Args(op, str, p1, p2) == ArgsWith(op, str, p1, p2, NoPattern, undefined)
NoArgs == Args("constructor", <<>>, undefined, undefined)

Targets == 0 .. (MaxLen + 2)
OptPads == {undefined} \cup {<<t>> : t \in Terms}
Counts == -1 .. MaxTerm

\* the object the caller holds from now on and calls methods on
Receiver(g) == [g EXCEPT !.id = "receiver"]

Init ==
    /\ this \in {Receiver(New(cls, StringInput(s))) : cls \in Classes, s \in Receivers}
    /\ call = NoArgs
    /\ ret = NoReturn

Ready == call.op = "constructor"

\* the returned instances the caller constructs its next instance from
WithinBounds(str) ==
    /\ Len(str) <= MaxLen
    /\ \A i \in 1 .. Len(str) : str[i] \in Alphabet

Held ==
    {g \in (IF ret.type = "GCString" THEN {ret.gc} ELSE {})
              \cup {ret.gcs[i] : i \in 1 .. Len(ret.gcs)} :
        WithinBounds(g.rawString)}

\* the returned strings the caller constructs its next instance from
HeldStrings == {str \in {ret.strs[i] : i \in 1 .. Len(ret.strs)} : WithinBounds(str)}

Constructor ==
    /\ ~Ready
    /\ \E input \in {InstanceInput(this)} \cup {InstanceInput(g) : g \in Held}
                      \cup {StringInput(str) : str \in HeldStrings} :
           this' = Receiver(New(this.cls, input))
    /\ call' = NoArgs
    /\ ret' = NoReturn

Slice ==
    /\ Ready
    /\ \E start \in OptIndices, end \in OptIndices :
           /\ call' = Args("slice", <<>>, start, end)
           /\ ret' = ReturnGC(slice(this, start, end))
    /\ UNCHANGED this

Substring ==
    /\ Ready
    /\ \E indexA \in Indices, indexB \in OptIndices :
           /\ call' = Args("substring", <<>>, <<indexA>>, indexB)
           /\ ret' = ReturnGC(substring(this, indexA, indexB))
    /\ UNCHANGED this

Substr ==
    /\ Ready
    /\ this.cls = "gcstring"
    /\ \E start \in Indices, length \in OptIndices :
           /\ call' = Args("substr", <<>>, <<start>>, length)
           /\ ret' = ReturnGC(substr(this, start, length))
    /\ UNCHANGED this

IndexOf ==
    /\ Ready
    /\ this.cls = "gcstring"
    /\ \E searchString \in Terms, position \in OptIndices :
           /\ call' = Args("indexOf", searchString, position, undefined)
           /\ ret' = ReturnNumber(indexOf(this, StringInput(searchString), position))
    /\ UNCHANGED this

LastIndexOf ==
    /\ Ready
    /\ this.cls = "gcstring"
    /\ \E searchString \in Terms, position \in OptIndices :
           /\ call' = Args("lastIndexOf", searchString, position, undefined)
           /\ ret' = ReturnNumber(lastIndexOf(this, StringInput(searchString), position))
    /\ UNCHANGED this

Includes ==
    /\ Ready
    /\ this.cls = "gcstring"
    /\ \E searchString \in Terms, position \in OptIndices :
           /\ call' = Args("includes", searchString, position, undefined)
           /\ ret' = ReturnBoolean(includes(this, StringInput(searchString), position))
    /\ UNCHANGED this

StartsWith ==
    /\ Ready
    /\ \E searchString \in Terms, position \in OptIndices :
           /\ call' = Args("startsWith", searchString, position, undefined)
           /\ ret' = ReturnBoolean(startsWith(this, StringInput(searchString), position))
    /\ UNCHANGED this

EndsWith ==
    /\ Ready
    /\ \E searchString \in Terms, endPosition \in OptIndices :
           /\ call' = Args("endsWith", searchString, endPosition, undefined)
           /\ ret' = ReturnBoolean(endsWith(this, StringInput(searchString), endPosition))
    /\ UNCHANGED this

PadStart ==
    /\ Ready
    /\ \E targetLength \in Targets, padString \in OptPads :
           /\ call' = ArgsWith("padStart", <<>>, <<targetLength>>, undefined,
                               NoPattern, padString)
           /\ ret' = ReturnOrThrow(padStart(this, targetLength, padString))
    /\ UNCHANGED this

PadEnd ==
    /\ Ready
    /\ \E targetLength \in Targets, padString \in OptPads :
           /\ call' = ArgsWith("padEnd", <<>>, <<targetLength>>, undefined,
                               NoPattern, padString)
           /\ ret' = ReturnOrThrow(padEnd(this, targetLength, padString))
    /\ UNCHANGED this

Trim ==
    /\ Ready
    /\ \E method \in TrimMethods(this.cls) :
           /\ call' = Args(method, <<>>, undefined, undefined)
           /\ ret' = ReturnGC(Trimmed(this, method))
    /\ UNCHANGED this

Replace ==
    /\ Ready
    /\ this.cls = "gcu"
    /\ \E pattern \in Patterns, replacement \in Replacements :
           /\ call' = ArgsWith("replace", replacement, undefined, undefined,
                               pattern, undefined)
           /\ ret' = ReturnOrThrow(replace(this, pattern, replacement))
    /\ UNCHANGED this

ReplaceAll ==
    /\ Ready
    /\ this.cls = "gcu"
    /\ \E pattern \in Patterns, replacement \in Replacements :
           /\ call' = ArgsWith("replaceAll", replacement, undefined, undefined,
                               pattern, undefined)
           /\ ret' = ReturnOrThrow(replaceAll(this, pattern, replacement))
    /\ UNCHANGED this

Concat ==
    /\ Ready
    /\ \E strings \in {<<>>} \cup {<<t>> : t \in Terms} :
           /\ call' = Args("concat", Join(strings), <<Len(strings)>>, undefined)
           /\ ret' = ReturnGC(concat(this, strings))
    /\ UNCHANGED this

Repeat ==
    /\ Ready
    /\ this.cls = "gcstring"
    /\ \E count \in Counts :
           /\ call' = Args("repeat", <<>>, <<count>>, undefined)
           /\ ret' = ReturnOrThrow(repeat(this, count))
    /\ UNCHANGED this

Split ==
    /\ Ready
    /\ \E separator \in Terms, limit \in OptIndices :
           /\ call' = Args("split", separator, limit, undefined)
           /\ ret' = IF this.cls = "gcu"
                     THEN ReturnStrings(split_gcu(this, separator, limit))
                     ELSE ReturnArray(split_gcstring(this, separator, limit))
    /\ UNCHANGED this

Match ==
    /\ Ready
    /\ this.cls = "gcu"
    /\ \E regexp \in Patterns :
           /\ call' = ArgsWith("match", <<>>, undefined, undefined, regexp, undefined)
           /\ ret' = ReturnMatch(match(this, regexp).matchArray)
           /\ this' = match(this, regexp).self

Search ==
    /\ Ready
    /\ this.cls = "gcu"
    /\ \E regexp \in Patterns :
           /\ call' = ArgsWith("search", <<>>, undefined, undefined, regexp, undefined)
           /\ ret' = Return(search(this, regexp).type, NoInstance,
                            search(this, regexp).num, FALSE, <<>>, "")
           /\ this' = search(this, regexp).self

\* the call of matchAll: no statement of the body runs
MatchAll ==
    /\ Ready
    /\ this.cls = "gcu"
    /\ \E regexp \in Patterns :
           /\ call' = ArgsWith("matchAll", <<>>, undefined, undefined, regexp, undefined)
           /\ ret' = ReturnGenerator("suspendedStart", <<>>)
    /\ UNCHANGED this

\* the caller asks the generator for its next result
GeneratorNext ==
    /\ call.op = "matchAll"
    /\ ret.type = "Generator"
    /\ ret.gen # "completed"
    /\ LET r == matchAll_next(this, call.pattern, ret.gen, ret.nums)
       IN  /\ ret' = IF r.threw
                     THEN [ReturnThrow("TypeError") EXCEPT !.gen = "completed"]
                     ELSE ReturnGenerator(r.gen, r.yielded)
           /\ this' = r.self
    /\ UNCHANGED call

CharAt ==
    /\ Ready
    /\ \E index \in Indices :
           /\ call' = Args("charAt", <<>>, <<index>>, undefined)
           /\ ret' = ReturnString(charAt(this, index))
    /\ UNCHANGED this

At ==
    /\ Ready
    /\ this.cls = "gcstring"
    /\ \E index \in Indices :
           /\ call' = Args("at", <<>>, <<index>>, undefined)
           /\ ret' = ReturnString(at(this, index))
    /\ UNCHANGED this

\* new GCString(input) with a string, null, undefined or the instance held
ConstructOp(input) ==
    CASE input.kind = "null" -> "new(null)"
      [] input.kind = "undefined" -> "new(undefined)"
      [] input.kind = "GCString" -> "new(GCString)"
      [] OTHER -> "new(string)"

Construct ==
    /\ Ready
    /\ \E input \in {NullInput, UndefinedInput, InstanceInput(this)}
                      \cup {StringInput(str) : str \in Terms} :
           /\ call' = Args(ConstructOp(input),
                           IF input.kind = "string" THEN input.v ELSE <<>>,
                           undefined, undefined)
           /\ ret' = ReturnGC(New(this.cls, input))
    /\ UNCHANGED this

CaseConversion ==
    /\ Ready
    /\ \E method \in CaseMethods :
           /\ call' = Args(method, <<>>, undefined, undefined)
           /\ ret' = ReturnGC(CaseConverted(this, method))
    /\ UNCHANGED this

Normalize ==
    /\ Ready
    /\ this.cls = "gcu"
    /\ \E form \in {undefined} \cup {<<f>> : f \in NormalizationForms \cup {"NFX"}} :
           /\ call' = ArgsWith("normalize", <<>>, undefined, undefined, NoPattern, form)
           /\ ret' = ReturnOrThrow(normalize(this, form))
    /\ UNCHANGED this

\* another instance's concat, indexOf or endsWith is called with the
\* instance held as its argument
ArgumentMethods(cls) ==
    IF cls = "gcu" THEN {"concat", "endsWith"} ELSE {"concat", "indexOf", "endsWith"}

PassedAsArgument ==
    /\ Ready
    /\ \E str \in Terms, method \in ArgumentMethods(this.cls) :
           LET other == New(this.cls, StringInput(str))
               argument == IF this.cls = "gcu" THEN StringInput(this.rawString)
                           ELSE InstanceInput(this)
           IN  /\ call' = Args(CASE method = "concat" -> "other.concat"
                                  [] method = "indexOf" -> "other.indexOf"
                                  [] method = "endsWith" -> "other.endsWith",
                               str, undefined, undefined)
               /\ ret' = CASE method = "concat" -> ReturnGC(concat(other, <<this.rawString>>))
                           [] method = "indexOf"
                                -> ReturnNumber(indexOf(other, argument, undefined))
                           [] method = "endsWith"
                                -> ReturnBoolean(endsWith(other, argument, undefined))
    /\ UNCHANGED this

\* the caller goes on to call another method on the instance it holds
Again ==
    /\ ~Ready
    /\ call' = NoArgs
    /\ ret' = NoReturn
    /\ UNCHANGED this

\* part_000 get graphemes: the internal array itself
Graphemes ==
    /\ Ready
    /\ this.cls = "gcstring"
    /\ call' = Args("graphemes", <<>>, undefined, undefined)
    /\ ret' = Return("graphemes", NoInstance, 0, FALSE, <<>>, "")
    /\ UNCHANGED this

\* the caller tries to change the array it was handed
MutateGraphemes ==
    /\ call.op = "graphemes"
    /\ ret.type = "graphemes"
    /\ \E attempt \in MutationAttempts :
           /\ call' = Args(attempt, <<>>, undefined, undefined)
           /\ ret' = IF ArrayMutation(this, attempt).threw THEN ReturnThrow("TypeError")
                     ELSE NoReturn
           /\ this' = ArrayMutation(this, attempt).self

\* the caller assigns to the value accessor of part_000, which has no setter
AssignValue ==
    /\ Ready
    /\ this.cls = "gcstring"
    /\ \E str \in Terms :
           /\ call' = Args("value=", str, undefined, undefined)
           /\ ret' = ReturnThrow("TypeError")
    /\ UNCHANGED this

\* [Symbol.iterator] of both classes: the clusters, one by one
Iterate ==
    /\ Ready
    /\ call' = Args("[Symbol.iterator]", <<>>, undefined, undefined)
    /\ ret' = ReturnStrings(this.gcArray)
    /\ UNCHANGED this

RangeNext == Constructor \/ Slice \/ Substring \/ Substr

SearchNext ==
    Constructor \/ IndexOf \/ LastIndexOf \/ Includes \/ StartsWith \/ EndsWith

Next ==
    \/ PadStart
    \/ PadEnd
    \/ Trim
    \/ Replace
    \/ ReplaceAll
    \/ Concat
    \/ Repeat
    \/ Split
    \/ Constructor
    \/ Slice
    \/ Substring
    \/ Substr
    \/ IndexOf
    \/ LastIndexOf
    \/ Includes
    \/ StartsWith
    \/ EndsWith
    \/ Match
    \/ Search
    \/ MatchAll
    \/ GeneratorNext
    \/ CharAt
    \/ At
    \/ Construct
    \/ CaseConversion
    \/ Normalize
    \/ PassedAsArgument
    \/ Again
    \/ Graphemes
    \/ MutateGraphemes
    \/ AssignValue
    \/ Iterate

Spec == Init /\ [][Next]_vars

\* the range extraction methods alone, and the search methods alone
SpecRange == Init /\ [][RangeNext]_vars
SpecSearch == Init /\ [][SearchNext]_vars

\* pattern matching alone, replacement alone, charAt alone
MatchNext == Constructor \/ Match \/ Search \/ MatchAll \/ GeneratorNext
SpecMatch == Init /\ [][MatchNext]_vars

ReplaceNext == Constructor \/ Replace \/ ReplaceAll
SpecReplace == Init /\ [][ReplaceNext]_vars

CharAtNext == Constructor \/ CharAt
SpecCharAt == Init /\ [][CharAtNext]_vars

AtNext == Constructor \/ At
SpecAt == Init /\ [][AtNext]_vars

ConstructNext == Constructor \/ Construct
SpecConstruct == Init /\ [][ConstructNext]_vars

\* the accessors and the iterator alone
FrozenNext == Constructor \/ Graphemes \/ MutateGraphemes \/ AssignValue \/ Iterate
SpecFrozen == Init /\ [][FrozenNext]_vars

\* the trim methods alone, on strings that also hold CR and LF
InitTrim ==
    /\ this \in {Receiver(New(cls, StringInput(str))) :
                     cls \in Classes, str \in StringsUpTo(Alphabet, MaxLen)}
    /\ call = NoArgs
    /\ ret = NoReturn

TrimNext == Constructor \/ Trim
SpecTrim == InitTrim /\ [][TrimNext]_vars

\* padding alone
PadNext == Constructor \/ PadStart \/ PadEnd
SpecPad == Init /\ [][PadNext]_vars

\* split alone
SplitNext == Constructor \/ Split
SpecSplit == Init /\ [][SplitNext]_vars

(***************************************************************************)
(* Vocabulary of the properties: thisLength is the receiver's cluster      *)
(* count (n in the comments), termLength the term's cluster count (k).     *)
(***************************************************************************)
thisLength == Len(this.gcArray)
TermGCs == segmentStringIntoGCs(call.str)
termLength == Len(TermGCs)
Given(p) == p # undefined

\* the clusters of term are the clusters i .. i+Len(term)-1 of gcArray
ClustersEqualAt(gcArray, term, i) ==
    \A j \in 0 .. Len(term) - 1 :
        /\ i + j >= 0
        /\ i + j < Len(gcArray)
        /\ gcArray[i + j + 1] = term[j + 1]

\* the clusters lo .. hi-1 of gcArray
ClustersFromTo(gcArray, lo, hi) ==
    [i \in 1 .. Max(hi - lo, 0) |-> gcArray[lo + i]]

\* sub is a run of consecutive code units of str
OccursIn(sub, str) ==
    \E i \in 0 .. Len(str) - Len(sub) : SubSeq(str, i + 1, i + Len(sub)) = sub

HasWideCluster(g) == Len(g.rawString) > Len(g.gcArray)

\* the strings split returned: gcu.js returns them, part_000 wraps them
Segments ==
    IF this.cls = "gcu" THEN ret.strs
    ELSE [i \in 1 .. Len(ret.gcs) |-> ret.gcs[i].rawString]

\* str is the concatenation of consecutive whole clusters of gcArray
IsRunOfClusters(str, gcArray) ==
    \E lo \in 0 .. Len(gcArray), hi \in 0 .. Len(gcArray) :
        lo <= hi /\ str = Join(ClustersFromTo(gcArray, lo, hi))

\* the strings of parts joined with separator between them
RECURSIVE Intercalate(_, _)
Intercalate(parts, separator) ==
    IF Len(parts) = 0 THEN <<>>
    ELSE IF Len(parts) = 1 THEN parts[1]
    ELSE parts[1] \o separator \o Intercalate(Tail(parts), separator)

\* C1: the clusters of every instance, constructed or returned by an
\* operation, concatenate in order to exactly its raw string.
C1_ConcatOfClustersIsRaw ==
    /\ Join(this.gcArray) = this.rawString
    /\ ret.type = "GCString" => Join(ret.gc.gcArray) = ret.gc.rawString
    /\ \A i \in 1 .. Len(ret.gcs) : Join(ret.gcs[i].gcArray) = ret.gcs[i].rawString

C1_Witness ==
    /\ ret.type = "GCString"
    /\ HasWideCluster(ret.gc)
    /\ Len(ret.gc.gcArray) >= 2

\* C2: startsWith(term, position) is true exactly when the k clusters of the
\* term are the receiver's clusters position .. position+k-1, for every
\* integer position and every term, in both classes.
C2_StartsWithIsPositionalMatch ==
    call.op = "startsWith" =>
        LET position == IF Given(call.p1) THEN call.p1[1] ELSE 0
        IN  ret.bool = (/\ position + termLength <= thisLength
                        /\ ClustersEqualAt(this.gcArray, TermGCs, position))

\* C3: endsWith(term, endPosition) is true exactly when endPosition - k >= 0
\* and the k clusters of the term are the receiver's clusters
\* endPosition-k .. endPosition-1, in both classes.
C3_EndsWithIsPositionalMatch ==
    call.op = "endsWith" =>
        LET endPosition == IF Given(call.p1) THEN call.p1[1] ELSE thisLength
        IN  ret.bool = (/\ endPosition - termLength >= 0
                        /\ ClustersEqualAt(this.gcArray, TermGCs, endPosition - termLength))

\* C4: indexOf(term, from) is the smallest i with from <= i <= length - k at
\* which the k clusters of the term match, -1 when there is none, and the
\* result is always -1 or an index in 0 .. length.
C4_IndexOfIsFirstMatchInRange ==
    call.op = "indexOf" =>
        LET from == IF Given(call.p1) THEN call.p1[1] ELSE 0
            matches == {i \in from .. thisLength - termLength : ClustersEqualAt(this.gcArray, TermGCs, i)}
        IN  /\ ret.num = IF matches = {} THEN -1 ELSE SetMin(matches)
            /\ ret.num = -1 \/ ret.num \in 0 .. thisLength

\* C5: lastIndexOf(term, from) is the largest index i <= min(from, length - k)
\* at which the k clusters of the term match, -1 when there is none; with
\* from omitted a term equal to the last k clusters is found at length - k.
C5_LastIndexOfIsLastMatch ==
    call.op = "lastIndexOf" =>
        LET top == IF Given(call.p1) THEN Min(call.p1[1], thisLength - termLength) ELSE thisLength - termLength
            matches == {i \in 0 .. top : ClustersEqualAt(this.gcArray, TermGCs, i)}
        IN  /\ ret.num = IF matches = {} THEN -1 ELSE SetMax(matches)
            /\ (~Given(call.p1) /\ termLength <= thisLength
                  /\ ClustersEqualAt(this.gcArray, TermGCs, thisLength - termLength)) => ret.num = thisLength - termLength

C5_Witness ==
    /\ call.op = "lastIndexOf"
    /\ ~Given(call.p1)
    /\ termLength = 1
    /\ Len(call.str) = 2
    /\ ret.num = thisLength - termLength
    /\ ret.num >= 1

\* C6: a term whose code units occur in the raw string only strictly inside
\* a cluster is never found: indexOf and lastIndexOf return -1, includes,
\* startsWith and endsWith return false; and every index that indexOf or
\* lastIndexOf returns is a position where whole clusters match.
OnlyInsideACluster ==
    /\ call.str # <<>>
    /\ \E i \in 1 .. thisLength : /\ OccursIn(call.str, this.gcArray[i])
                          /\ call.str # this.gcArray[i]
    /\ \A i \in 0 .. thisLength : ~ClustersEqualAt(this.gcArray, TermGCs, i)

C6_NoMatchInsideACluster ==
    /\ (call.op \in {"indexOf", "lastIndexOf"} /\ OnlyInsideACluster) => ret.num = -1
    /\ (call.op \in {"includes", "startsWith", "endsWith"} /\ OnlyInsideACluster)
           => ret.bool = FALSE
    /\ (call.op \in {"indexOf", "lastIndexOf"} /\ ret.num # -1)
           => ClustersEqualAt(this.gcArray, TermGCs, ret.num)

\* C7: slice(start, end) returns the clusters s .. e-1, a negative index i
\* normalised to max(n + i, 0), a non-negative one to min(i, n), end omitted
\* meaning n; the result is empty when s >= e and has max(e - s, 0) clusters.
C7_SliceIsClampedRange ==
    (call.op = "slice" /\ Given(call.p1)) =>
        LET Norm(i) == IF i < 0 THEN Max(thisLength + i, 0) ELSE Min(i, thisLength)
            s == Norm(call.p1[1])
            e == IF Given(call.p2) THEN Norm(call.p2[1]) ELSE thisLength
        IN  /\ ret.gc.rawString = Join(ClustersFromTo(this.gcArray, s, e))
            /\ s >= e => ret.gc.rawString = <<>>
            /\ Len(ret.gc.gcArray) = Max(e - s, 0)

C7_Witness ==
    /\ call.op = "slice"
    /\ Given(call.p1) /\ call.p1[1] < 0
    /\ Given(call.p2) /\ call.p2[1] < 0
    /\ Len(ret.gc.gcArray) >= 1
    /\ HasWideCluster(ret.gc)

\* C8: substring(a, b) clamps each negative argument to 0, then swaps the
\* pair if a > b, then extracts the clusters [a, b) clamped to the length; so
\* two negative arguments give the empty result and substring(a, b) always
\* equals substring(b, a).
C8_SubstringNormalisesThenSwaps ==
    (call.op = "substring" /\ Given(call.p2)) =>
        LET a == Max(call.p1[1], 0)
            b == Max(call.p2[1], 0)
            lo == Min(Min(a, b), thisLength)
            hi == Min(Max(a, b), thisLength)
        IN  /\ ret.gc.gcArray = ClustersFromTo(this.gcArray, lo, hi)
            /\ ret.gc.rawString = Join(ClustersFromTo(this.gcArray, lo, hi))
            /\ (call.p1[1] < 0 /\ call.p2[1] < 0) => ret.gc.rawString = <<>>
            /\ ret.gc = substring(this, call.p2[1], <<call.p1[1]>>)

C8_Witness ==
    /\ call.op = "substring"
    /\ Given(call.p2)
    /\ call.p2[1] < 0
    /\ call.p1[1] > 0
    /\ Len(ret.gc.gcArray) >= 2
    /\ HasWideCluster(ret.gc)

\* C9: for 0 <= a, b <= length, substring(a, b) and slice(min(a, b), max(a, b))
\* have the same raw string and the same clusters.
C9_SubstringAgreesWithSlice ==
    (/\ call.op = "substring"
     /\ Given(call.p2)
     /\ call.p1[1] \in 0 .. thisLength
     /\ call.p2[1] \in 0 .. thisLength) =>
        LET sliced == slice(this, <<Min(call.p1[1], call.p2[1])>>,
                                  <<Max(call.p1[1], call.p2[1])>>)
        IN  /\ ret.gc.rawString = sliced.rawString
            /\ ret.gc.gcArray = sliced.gcArray

C9_Witness ==
    /\ call.op = "substring"
    /\ Given(call.p2)
    /\ call.p1[1] \in 0 .. thisLength
    /\ call.p2[1] \in 0 .. thisLength
    /\ call.p1[1] > call.p2[1]
    /\ ret.gc.rawString # <<>>
    /\ HasWideCluster(this)

\* C10: substr(start, len) normalises a negative start to max(length + start,
\* 0) and returns the clusters s .. min(s + len, length) - 1: never more than
\* max(len, 0) clusters, none when len <= 0, all from s on when len is omitted.
C10_SubstrCountsClusters ==
    call.op = "substr" =>
        LET s == IF call.p1[1] < 0 THEN Max(thisLength + call.p1[1], 0) ELSE call.p1[1]
            e == IF Given(call.p2) THEN Min(s + call.p2[1], thisLength) ELSE thisLength
        IN  /\ ret.gc.gcArray = ClustersFromTo(this.gcArray, Min(s, thisLength), e)
            /\ Given(call.p2) => Len(ret.gc.gcArray) <= Max(call.p2[1], 0)
            /\ (Given(call.p2) /\ call.p2[1] <= 0) => ret.gc.gcArray = <<>>

\* C11: split with a non-empty separator cuts only at whole clusters: every
\* returned segment is a run of consecutive whole clusters of the receiver,
\* and when the separator's clusters match no run of whole clusters (no
\* limit, or a limit of at least 1) the result is the receiver alone; in
\* both classes.
C11_SplitCutsAtWholeClusters ==
    (call.op = "split" /\ call.str # <<>>) =>
        /\ \A i \in 1 .. Len(Segments) : IsRunOfClusters(Segments[i], this.gcArray)
        /\ ((\A i \in 0 .. thisLength : ~ClustersEqualAt(this.gcArray, TermGCs, i))
               /\ (Given(call.p1) => call.p1[1] >= 1))
              => Segments = <<this.rawString>>

\* C12: split(separator, limit) with a non-empty separator and limit >= 0
\* returns at most limit segments, none when limit is 0; in gcu.js a
\* non-empty result ends with the unsplit remainder, so the segments joined
\* by the separator are the receiver's raw string.
C12_SplitRespectsLimit ==
    (call.op = "split" /\ call.str # <<>> /\ Given(call.p1) /\ call.p1[1] >= 0) =>
        /\ Len(Segments) <= call.p1[1]
        /\ call.p1[1] = 0 => Segments = <<>>
        /\ (this.cls = "gcu" /\ Segments # <<>>)
              => Intercalate(Segments, call.str) = this.rawString

C12_Witness ==
    /\ call.op = "split"
    /\ this.cls = "gcu"
    /\ call.p1 = <<2>>
    /\ Len(Segments) = 2
    /\ OccursIn(call.str, Segments[2])
    /\ call.str # <<>>

\* C13: split("") returns one segment per cluster, in order, each segment
\* that single cluster; with a limit L >= 0 the first min(L, length) of them.
C13_SplitEmptySeparatorGivesClusters ==
    (call.op = "split" /\ call.str = <<>> /\ (Given(call.p1) => call.p1[1] >= 0)) =>
        LET count == IF Given(call.p1) THEN Min(call.p1[1], thisLength) ELSE thisLength
        IN  /\ Segments = [i \in 1 .. count |-> this.gcArray[i]]
            /\ \A i \in 1 .. Len(ret.gcs) : ret.gcs[i].gcArray = <<this.gcArray[i]>>

C13_Witness ==
    /\ call.op = "split"
    /\ call.str = <<>>
    /\ this.cls = "gcstring"
    /\ call.p1 = <<2>>
    /\ thisLength = 2
    /\ Len(ret.gcs) = 2
    /\ HasWideCluster(ret.gcs[1])

\* C14: with n clusters in the receiver, a target T and a pad string of
\* p >= 1 clusters, padStart(T, pad) returns the clusters pad[i mod p] for
\* i = 0 .. T-n-1 followed by the receiver's clusters, padEnd(T, pad) the
\* receiver's clusters followed by them; the result has exactly max(T, n)
\* clusters, and the receiver's raw string when T <= n.
PadGCs == segmentStringIntoGCs(DefaultPad(call.pad))

PaddingSequence ==
    [i \in 1 .. Max(call.p1[1] - thisLength, 0) |-> PadGCs[((i - 1) % Len(PadGCs)) + 1]]

C14_PadReachesTargetLength ==
    (call.op \in {"padStart", "padEnd"} /\ Len(PadGCs) >= 1) =>
        LET expected == IF call.op = "padStart" THEN PaddingSequence \o this.gcArray
                        ELSE this.gcArray \o PaddingSequence
        IN  /\ ret.type = "GCString"
            /\ ret.gc.gcArray = expected
            /\ Len(ret.gc.gcArray) = Max(call.p1[1], thisLength)
            /\ call.p1[1] <= thisLength => ret.gc.rawString = this.rawString

\* the offset of the first code unit of cluster c (0-based) of the receiver
ClusterStart(c) == Len(Join(SubSeq(this.gcArray, 1, c)))

\* the index of the cluster that contains offset: the number of clusters
\* that end at or before it (the cluster count for the end of the string)
ClusterIndexAt(offset) ==
    Cardinality({c \in 1 .. thisLength : ClusterStart(c) <= offset})

IsGlobalRegExp(pattern) == pattern.kind = "RegExp" /\ pattern.global

\* the offsets the pattern engine reports for the call's pattern
EngineOffsets == MatchOffsets(this.rawString, call.pattern.source, 0)

\* C15: the index map, once built, has an entry for every offset
\* 0 .. codeUnitLength, is non-decreasing, maps every offset inside cluster c
\* to c and offset codeUnitLength to the cluster count; for the empty string
\* it is the single entry 0 -> 0.
C15_IndexMapIsMonotonicAndComplete ==
    this.gcIndexMap # undefined =>
        LET map == this.gcIndexMap
            codeUnitLength == Len(this.rawString)
        IN  /\ DOMAIN map = 1 .. codeUnitLength + 1
            /\ \A o1 \in DOMAIN map, o2 \in DOMAIN map : o1 <= o2 => map[o1] <= map[o2]
            /\ \A c \in 0 .. thisLength - 1 :
                   \A o \in ClusterStart(c) .. ClusterStart(c + 1) - 1 : map[o + 1] = c
            /\ map[codeUnitLength + 1] = thisLength
            /\ this.rawString = <<>> => map = <<0>>

C15_Witness ==
    /\ this.gcIndexMap # undefined
    /\ thisLength >= 2
    /\ Len(this.gcArray[1]) >= 2

\* C16: the index of the result of match() with a non-global pattern, and
\* of every result matchAll() yields with a global pattern, is the index of
\* the cluster containing the offset the engine reports; matchAll yields the
\* engine's matches in order, all of them once it completes, so the yielded
\* indices are non-decreasing.
C16_MatchIndexIsGraphemeIndex ==
    /\ (call.op = "match" /\ ~IsGlobalRegExp(call.pattern) /\ ret.type # "null")
          => /\ ret.type = "match"
             /\ ret.num = ClusterIndexAt(EngineOffsets[1])
    /\ (call.op = "matchAll" /\ IsGlobalRegExp(call.pattern))
          => /\ ret.type = "Generator"
             /\ Len(ret.nums) <= Len(EngineOffsets)
             /\ \A i \in 1 .. Len(ret.nums) : ret.nums[i] = ClusterIndexAt(EngineOffsets[i])
             /\ \A i \in 1 .. Len(ret.nums) - 1 : ret.nums[i] <= ret.nums[i + 1]
             /\ ret.gen = "completed" => Len(ret.nums) = Len(EngineOffsets)

C16_Witness ==
    /\ call.op = "matchAll"
    /\ ret.gen = "completed"
    /\ Len(ret.nums) >= 2
    /\ ret.nums[2] < EngineOffsets[2]
    /\ call.pattern.source # <<>>

\* C17: search(pattern) returns a number for every pattern, string,
\* non-global or global: the grapheme index of the first match, -1 when the
\* pattern does not match the raw string.
C17_SearchReturnsGraphemeIndex ==
    call.op = "search" =>
        /\ ret.type = "number"
        /\ ret.num = IF EngineOffsets = <<>> THEN -1 ELSE ClusterIndexAt(EngineOffsets[1])

\* C18: matchAll with a non-global pattern fails with a TypeError, signalled
\* to the caller of matchAll by the call itself, with no result yielded.
C18_MatchAllRejectsNonGlobalAtCall ==
    (call.op = "matchAll" /\ call.pattern.kind = "RegExp" /\ ~call.pattern.global) =>
        /\ ret.type = "throw"
        /\ ret.err = "TypeError"
        /\ ret.nums = <<>>

\* C19: replace() with a global pattern throws an Error and replaceAll()
\* with a non-global pattern throws a TypeError; in both cases the receiver
\* is unchanged and no instance is returned.  replaceAll with a literal
\* string or a global pattern returns an instance.
C19_RejectedPatternLeavesReceiver ==
    [][/\ (call'.op = "replace" /\ IsGlobalRegExp(call'.pattern))
             => /\ ret'.type = "throw"
                /\ ret'.err = "Error"
                /\ ret'.gc = NoInstance
                /\ this' = this
       /\ (call'.op = "replaceAll" /\ call'.pattern.kind = "RegExp"
              /\ ~call'.pattern.global)
             => /\ ret'.type = "throw"
                /\ ret'.err = "TypeError"
                /\ ret'.gc = NoInstance
                /\ this' = this
       /\ (call'.op = "replaceAll"
              /\ (call'.pattern.kind = "string" \/ IsGlobalRegExp(call'.pattern)))
             => /\ ret'.type = "GCString"
                /\ ret'.gc.gcArray = segmentStringIntoGCs(ret'.gc.rawString)
                /\ this' = this]_vars

C19_Witness ==
    /\ call.op = "replace"
    /\ IsGlobalRegExp(call.pattern)
    /\ ret.type = "throw"
    /\ call.pattern.source # <<>>
    /\ OccursIn(call.pattern.source, this.rawString)
    /\ call.str # call.pattern.source
    /\ HasWideCluster(this)

\* C20: charAt(i) returns the cluster at index i when 0 <= i < length and
\* the empty string for every other index; it never throws and never
\* returns an absent value; in both classes.
C20_CharAtReturnsClusterOrEmpty ==
    call.op = "charAt" =>
        /\ ret.type = "string"
        /\ ret.strs = <<IF call.p1[1] >= 0 /\ call.p1[1] < thisLength
                        THEN this.gcArray[call.p1[1] + 1]
                        ELSE <<>>>>

\* C21: at(i) returns the cluster at index i for 0 <= i < length, the
\* cluster at index length + i for -length <= i < 0, and undefined for
\* every other index, where charAt returns the empty string.
C21_AtSupportsNegativeIndices ==
    call.op = "at" =>
        LET i == call.p1[1]
        IN  /\ (i >= 0 /\ i < thisLength)
                  => (ret.type = "string" /\ ret.strs = <<this.gcArray[i + 1]>>)
            /\ (i < 0 /\ i >= 0 - thisLength)
                  => (ret.type = "string" /\ ret.strs = <<this.gcArray[thisLength + i + 1]>>)
            /\ (i >= thisLength \/ i < 0 - thisLength)
                  => /\ ret.type = "undefined"
                     /\ ret.strs = <<>>
                     /\ charAt(this, i) = [type |-> "string", str |-> <<>>]
            /\ (i = -1 /\ thisLength >= 1) => ret.strs = <<this.gcArray[thisLength]>>

C21_Witness ==
    /\ call.op = "at"
    /\ call.p1[1] < -1
    /\ ret.type = "string"
    /\ Len(ret.strs[1]) >= 2
    /\ thisLength >= 2

\* C22: construction from null or undefined gives the raw string "" and no
\* cluster; construction from a GCString instance gives its raw string and
\* its cluster sequence; in both classes.
C22_ConstructionNormalisesInput ==
    /\ call.op \in {"new(null)", "new(undefined)"}
          => (ret.gc.rawString = <<>> /\ ret.gc.gcArray = <<>>)
    /\ call.op = "new(GCString)"
          => (ret.gc.rawString = this.rawString /\ ret.gc.gcArray = this.gcArray)

\* C23: no operation alters an existing instance: every step other than the
\* construction of the caller's next instance, failed calls, calls that build
\* the index map and calls that pass the instance as an argument included,
\* leaves its raw string, its cluster sequence and its length as they were.
C23_NoOperationAltersInstance ==
    [][Constructor \/ (/\ this'.rawString = this.rawString
                       /\ this'.gcArray = this.gcArray
                       /\ Len(this'.gcArray) = Len(this.gcArray)
                       /\ this'.id = this.id)]_vars

C23_Witness ==
    /\ Ready
    /\ this.gcIndexMap # undefined
    /\ HasWideCluster(this)
    /\ thisLength >= 2

TextOperations ==
    {"slice", "substring", "substr", "padStart", "padEnd", "trim", "trimLeft",
     "trimRight", "trimStart", "trimEnd", "replace", "replaceAll", "concat",
     "repeat", "normalize"} \cup CaseMethods

C25_TextOperationsReturnFreshInstance ==
    (call.op \in TextOperations /\ ret.type = "GCString") =>
        /\ ret.gc.id = "fresh"
        /\ ret.gc.id # this.id

\* the indices (0-based) of the receiver's clusters that are not white space
NonWhitespaceIndices == {i \in 0 .. thisLength - 1 : ~isWhitespace(this.gcArray[i + 1])}

C27_TrimImplementationsAgree ==
    call.op = "trim" =>
        /\ ret.gc.rawString = trim_gcu(NewGcu(StringInput(this.rawString))).rawString
        /\ ret.gc.rawString
              = trim_gcstring(NewGcstring(StringInput(this.rawString))).rawString
        /\ ret.gc.rawString # <<>>
              => /\ ~IsWhiteSpaceUnit(ret.gc.rawString[1])
                 /\ ~IsWhiteSpaceUnit(ret.gc.rawString[Len(ret.gc.rawString)])

\* the map the scan over the receiver's clusters gives: the cluster index of
\* every code unit offset, and the number of clusters for the end offset
ExpectedIndexMap ==
    [o \in 1 .. Len(this.rawString) + 1 |->
        IF o = Len(this.rawString) + 1 THEN thisLength ELSE ClusterIndexAt(o - 1)]

\* the step returned a result whose index was translated to a cluster index
TranslatedAMatch ==
    \/ call'.op = "match" /\ ret'.type = "match"
    \/ call'.op = "search" /\ ret'.type = "number" /\ ret'.num # -1
    \/ /\ call'.op = "matchAll"
       /\ ret'.type = "Generator"
       /\ ret.type = "Generator"
       /\ Len(ret'.nums) > Len(ret.nums)

\* the step is a construction after which the caller holds another instance
\* (only Constructor and Again begin a new call, and Again keeps the instance)
ConstructedAnother == call'.op = "constructor" /\ this' # this

\* C28: the index map of a gcu.js instance is computed at most once and
\* lazily: it is absent after construction and stays absent through every
\* operation that translates nothing; the first match, search or matchAll
\* step with a match to translate builds it; once built it is reused and
\* never changes for the rest of the instance's life.
C28_IndexMapIsBuiltOnceAndLazily ==
    /\ this.gcIndexMap = undefined
    /\ [][/\ ConstructedAnother => this'.gcIndexMap = undefined
          /\ (this.gcIndexMap # undefined /\ ~ConstructedAnother)
                => this'.gcIndexMap = this.gcIndexMap
          /\ (this.gcIndexMap = undefined /\ ~ConstructedAnother)
                => IF TranslatedAMatch
                   THEN this'.gcIndexMap = ExpectedIndexMap
                   ELSE this'.gcIndexMap = undefined]_vars

C28_Witness ==
    /\ this.cls = "gcu"
    /\ call.op = "matchAll"
    /\ ret.type = "Generator"
    /\ ret.gen = "suspendedYield"
    /\ Len(ret.nums) = 2
    /\ this.gcIndexMap # undefined
    /\ thisLength < Len(this.rawString)

\* the number of non-overlapping occurrences of pat a left-to-right scan of
\* seq finds from position i on (pat not empty)
RECURSIVE CountMatches(_, _, _)
CountMatches(seq, pat, i) ==
    IF i + Len(pat) > Len(seq) THEN 0
    ELSE IF SubSeq(seq, i + 1, i + Len(pat)) = pat
    THEN 1 + CountMatches(seq, pat, i + Len(pat))
    ELSE CountMatches(seq, pat, i + 1)

\* C29: split(separator) with a non-empty separator and no limit is
\* lossless: the segments joined with the separator between them are the
\* receiver's raw string, and there is one segment more than the scan finds
\* non-overlapping matches of the separator (gcu.js scans the clusters,
\* part_000 the code units); an empty receiver gives one empty segment.
C29_SplitWithoutLimitIsLossless ==
    (call.op = "split" /\ call.str # <<>> /\ ~Given(call.p1)) =>
        /\ Intercalate(Segments, call.str) = this.rawString
        /\ Len(Segments)
              = 1 + (IF this.cls = "gcu"
                     THEN CountMatches(this.gcArray, TermGCs, 0)
                     ELSE CountMatches(this.rawString, call.str, 0))
        /\ this.rawString = <<>> => Segments = << <<>> >>

C29_Witness ==
    /\ call.op = "split"
    /\ call.str # <<>>
    /\ ~Given(call.p1)
    /\ Len(Segments) = 2
    /\ Segments[2] = <<>>
    /\ HasWideCluster(this)

\* C30: padStart and padEnd called with the empty pad string and a target
\* greater than the receiver's length complete without an error and return
\* an instance whose raw string and clusters equal the receiver's, in both
\* classes.
C30_EmptyPadStringReturnsReceiverText ==
    (call.op \in {"padStart", "padEnd"} /\ call.pad = << <<>> >>
        /\ call.p1[1] > thisLength) =>
        /\ ret.type = "GCString"
        /\ ret.gc.rawString = this.rawString
        /\ ret.gc.gcArray = this.gcArray

====
